---- MODULE Spec2Model ----
(***************************************************************************)
(* PC Fan Orchestrator (src/main.py): a FastAPI relay in front of an ESP   *)
(* fan hub.  The module models the process-wide cache (state, info), the   *)
(* six request handlers as coroutines that suspend at their one device     *)
(* call, and the device as the environment that serves or fails each call. *)
(* The script of the /ui page (debounce queue, timer, poll refresh) is      *)
(* modelled beside it, with the relay's responses as its environment.       *)
(***************************************************************************)
EXTENDS Integers, Sequences, FiniteSets, TLC

\* ------------------------------------------------------------ bounds
\* Requests issued in one behaviour, and requests in flight at once.
MaxOps == 2
MaxInFlight == 2
\* Slider inputs and poll refreshes of the page in one behaviour.
MaxInputs == 2
MaxPolls == 1

\* ------------------------------------------------------------ constants
FAN_COUNT == 8
PWM_MAX == 255
PWM_DEFAULT == 255
BOOST_MAX == 300
BOOST_DEFAULT == 30
UPT_DEFAULT == 0
\* Status codes: 204 and 400 are written in the handlers; 200 (a GET that
\* returns), 422 (a body the request model refuses) and 500 (an exception
\* that leaves the handler) are the framework's.
HTTP_OK == 200
HTTP_NO_CONTENT == 204
HTTP_BAD_REQUEST == 400
HTTP_UNPROCESSABLE == 422
HTTP_SERVER_ERROR == 500
\* The page: the debounce window in ms, and the upper end of a slider.
deb == 60
RANGE_MAX == 255

Fans == 0..(FAN_COUNT - 1)

\* ------------------------------------------------------------ JSON values
\* A scalar JSON value as Python sees it after r.json(): t is the Python
\* type, v the number (an int; a float is kept in tenths), s the characters
\* of a string.
JInt(n) == [t |-> "int", v |-> n, s |-> <<>>]
JFloat(tenths) == [t |-> "float", v |-> tenths, s |-> <<>>]
JStr(chars) == [t |-> "str", v |-> 0, s |-> chars]
JBool(b) == [t |-> "bool", v |-> IF b THEN 1 ELSE 0, s |-> <<>>]
JNull == [t |-> "null", v |-> 0, s |-> <<>>]

\* What esp_get returns: a JSON list (l), a JSON object (has: the keys
\* present, d: their values), or the raw text of a non-JSON reply.
NoItems == <<>>
NoKeys == {}
NoFields == [fw |-> JNull, ip |-> JNull, upt |-> JNull, boost |-> JNull]
RList(items) == [t |-> "list", l |-> items, has |-> NoKeys, d |-> NoFields]
RDict(keys, fields) == [t |-> "dict", l |-> NoItems, has |-> keys, d |-> fields]
RText == [t |-> "text", l |-> NoItems, has |-> NoKeys, d |-> NoFields]
RNone == [t |-> "none", l |-> NoItems, has |-> NoKeys, d |-> NoFields]

DigitChars == <<"0", "1", "2", "3", "4", "5", "6", "7", "8", "9">>
IsDigit(c) == \E i \in 1..Len(DigitChars) : DigitChars[i] = c
DigitVal(c) == (CHOOSE i \in 1..Len(DigitChars) : DigitChars[i] = c) - 1

RECURSIVE Strip(_)
\* str.strip() as int() applies it to its argument: blanks off both ends.
Strip(s) ==
    IF s = <<>> THEN s
    ELSE IF Head(s) = " " THEN Strip(Tail(s))
    ELSE IF s[Len(s)] = " " THEN Strip(SubSeq(s, 1, Len(s) - 1))
    ELSE s

RECURSIVE ParseDigits(_, _, _)
\* The digits of an int literal, single underscores allowed between digits:
\* the value, or -1 when the text is no literal.
ParseDigits(s, acc, afterDigit) ==
    IF s = <<>> THEN (IF afterDigit THEN acc ELSE -1)
    ELSE IF IsDigit(Head(s)) THEN ParseDigits(Tail(s), acc * 10 + DigitVal(Head(s)), TRUE)
    ELSE IF Head(s) = "_" /\ afterDigit THEN ParseDigits(Tail(s), acc, FALSE)
    ELSE -1

\* int(v) of line 90: [ok, v]; ok = FALSE is the ValueError / TypeError.
PyInt(j) ==
    CASE j.t = "int" -> [ok |-> TRUE, v |-> j.v]
      [] j.t = "bool" -> [ok |-> TRUE, v |-> j.v]
      [] j.t = "float" ->
            [ok |-> TRUE,
             v |-> IF j.v >= 0 THEN j.v \div 10 ELSE -((-j.v) \div 10)]
      [] j.t = "str" ->
            LET b == Strip(j.s)
                neg == b # <<>> /\ Head(b) = "-"
                signed == b # <<>> /\ Head(b) \in {"-", "+"}
                n == ParseDigits(IF signed THEN Tail(b) ELSE b, 0, FALSE)
            IN  IF n < 0 THEN [ok |-> FALSE, v |-> 0]
                ELSE [ok |-> TRUE, v |-> IF neg THEN -n ELSE n]
      [] OTHER -> [ok |-> FALSE, v |-> 0]

\* ------------------------------------------------------------ data models
\* FanState: pwm : int = Field(255, ge=0, le=255)
FanState(pwm) == pwm \in 0..PWM_MAX

\* SysInfo and its defaults.
SysInfo == [fw |-> JStr(<<"-">>), ip |-> JStr(<<"-">>),
            upt |-> JInt(UPT_DEFAULT), boost |-> JInt(BOOST_DEFAULT)]

\* SetReq with the upper limit of pwm one too high.
SetReq_pwm256(fan, pwm) == fan >= 0 /\ fan < FAN_COUNT /\ pwm >= 0 /\ pwm <= PWM_MAX + 1

\* SetReq: fan ge=0, lt=FAN_COUNT; pwm ge=0, le=255.
SetReq(fan, pwm) == fan >= 0 /\ fan < FAN_COUNT /\ pwm >= 0 /\ pwm <= PWM_MAX

\* BoostReq: seconds ge=0, le=300.
BoostReq(seconds) == seconds >= 0 /\ seconds <= BOOST_MAX

\* The test of line 80 without its range check.
BulkRejected_lenOnly(pwms) == Len(pwms) # FAN_COUNT

\* The test of line 80, on a list of ints.
BulkRejected(pwms) ==
    Len(pwms) # FAN_COUNT \/ \E k \in 1..Len(pwms) : ~(0 <= pwms[k] /\ pwms[k] <= PWM_MAX)

\* ------------------------------------------------------------ inputs
\* Request bodies the clients send (valid and invalid), and what the device
\* can answer.
SetInputs ==
    { [fan |-> 0, pwm |-> 0], [fan |-> 7, pwm |-> 128],
      [fan |-> -1, pwm |-> 128], [fan |-> 8, pwm |-> 128],
      [fan |-> 3, pwm |-> -1], [fan |-> 3, pwm |-> 256] }
SecInputs == {-1, 300, 301}
BulkInputs ==
    { <<10, 20, 30, 40, 50, 60, 70, 80>>,
      <<0, 0, 0, 0, 255, 255, 255, 255>>,
      <<1, 2, 3>>,
      <<10, 20, 30, 40, 50, 60, 70, 80, 90>>,
      <<10, 20, 30, 40, 50, 60, 70, 256>>,
      <<-1, 20, 30, 40, 50, 60, 70, 80>> }
NoArr == <<>>

\* The device's fan array when the orchestrator starts (the cache lives in
\* memory only, the device keeps what it was last given) or after the device
\* has rebooted: some fans at the cache's default, some not.
DevBoot == { [i \in Fans |-> IF 2 * i < FAN_COUNT THEN PWM_DEFAULT ELSE 0] }

\* The device's /status answer that reports its fan array as it is.
Echo(d) == RList([k \in 1..FAN_COUNT |-> JInt(d[k - 1])])

\* Every answer the device can give to GET /status.
StatusReplies(d) ==
    { Echo(d),
      RList(<<JInt(1), JInt(2), JInt(3)>>),
      RList([k \in 1..FAN_COUNT |-> IF k = 1 THEN JInt(300) ELSE JInt(d[k - 1])]),
      RList([k \in 1..FAN_COUNT |-> IF k = 3 THEN JNull ELSE JInt(10 + k)]),
      RList([k \in 1..FAN_COUNT |->
                CASE k = 1 -> JStr(<<" ", "4", "2">>)
                  [] k = 2 -> JFloat(37)
                  [] k = 3 -> JBool(TRUE)
                  [] OTHER -> JInt(d[k - 1])]),
      RText }

\* Every answer the device can give to GET /info: all keys, some keys, or a
\* reply that is no JSON object.  The device reports well-typed fields.
InfoReplies(boost, upt) ==
    LET all == [fw |-> JStr(<<"1", ".", "3">>), ip |-> JStr(<<"e", "s", "p">>),
                upt |-> JInt(upt), boost |-> JInt(boost)]
    IN  { RDict({"fw", "ip", "upt", "boost"}, all),
          RDict({"upt"}, [NoFields EXCEPT !.upt = JInt(upt)]),
          RText }
UptInputs == {7}

\* ------------------------------------------------------------ state
VARIABLES
    state,      \* the fan cache: state[i] is state[i].pwm
    info,       \* the SysInfo snapshot
    dev,        \* the device's own fan array
    devBoost,   \* the device's own boost duration
    reqs,       \* the handlers suspended at their device call
    nOps,       \* requests received so far
    last,       \* the response sent most recently, with what it was about
    issuedNo,   \* per fan: the number of the write command issued last
    issuedVal,  \* per fan: the pwm that command carried
    stale,      \* per fan: overwritten since by a refresh or an older /bulk
    bw,         \* per fan: how many /bulk writes have reached the entry
    infoOk,     \* some /info fetch has refreshed the snapshot
    allOk,      \* no device call has failed, no /status answer was other than
                \* the device's array, the device has not rebooted
    \* the page
    queue,      \* q: fan index -> the value queued for it
    timer,      \* the one debounce timer: armed or not, ms left
    slider,     \* per fan: the value of its range input
    shown,      \* per fan: the text of its value label
    panel,      \* the info labels and the boost field
    focus,      \* the fans whose slider is document.activeElement (none or one)
    poll,       \* where refresh() is, and the st it holds
    fetches,    \* the /set fetches in flight
    sending,    \* the send() calls suspended at Promise.allSettled
    midReject,  \* a /set fetch was midReject while another of its send() was in flight
    nIn,        \* slider inputs so far
    nPoll,      \* refreshes started so far
    nSend,      \* timer fires so far
    latest,     \* per fan: the value entered last
    carried,    \* per fan: the pwm of the /set issued last
    sinceInput, \* ms since the last slider input, up to deb
    midFlight,  \* an input has arrived while a /set fetch was in flight
    nApply      \* refreshes that have reached their forEach

srv == <<state, info, dev, devBoost, reqs, nOps, last, issuedNo, issuedVal, stale, bw, infoOk,
         allOk>>
ui == <<queue, timer, slider, shown, panel, focus, poll, fetches, sending, midReject,
        nIn, nPoll, nSend, latest, carried, sinceInput, midFlight, nApply>>
vars == <<srv, ui>>
ghosts == <<issuedNo, issuedVal, stale, bw, infoOk>>

NoPrev == [kind |-> "none", fan |-> 0, pwm |-> 0, code |-> 0, solo |-> FALSE,
           before |-> [i \in Fans |-> PWM_DEFAULT],
           devBefore |-> [i \in Fans |-> PWM_DEFAULT]]
NoResp == [kind |-> "none", id |-> 0, fan |-> 0, pwm |-> 0, arr |-> NoArr, sec |-> 0,
           code |-> 0, called |-> FALSE, devok |-> FALSE, attempts |-> 0, raw |-> RNone,
           echo |-> FALSE,
           solo |-> FALSE, before |-> [i \in Fans |-> PWM_DEFAULT],
           devBefore |-> [i \in Fans |-> PWM_DEFAULT],
           pre |-> [i \in Fans |-> PWM_DEFAULT], cache |-> [i \in Fans |-> PWM_DEFAULT],
           preInfo |-> SysInfo, info |-> SysInfo, hadInfo |-> FALSE, prev |-> NoPrev]

\* A request as it is received: number id, nothing else in flight iff solo,
\* with the cache and the device's array as they are at that moment.
\* attempts counts the device calls made for it.
Req(kind, fan, pwm, arr, sec) ==
    [id |-> nOps + 1, kind |-> kind, fan |-> fan, pwm |-> pwm, arr |-> arr, sec |-> sec,
     call |-> "sent", attempts |-> 0, raw |-> RNone, echo |-> FALSE,
     solo |-> reqs = {}, before |-> state, devBefore |-> dev]

\* The response to q: its status code, whether a device call was made and
\* succeeded, the cache and info as the handler's last step found them (pre,
\* preInfo) and as they are when the response is sent (cache, info), and the
\* response sent before this one.
Resp(q, code, called, cache, inf) ==
    [kind |-> q.kind, id |-> q.id, fan |-> q.fan, pwm |-> q.pwm, arr |-> q.arr,
     sec |-> q.sec, code |-> code, called |-> called, devok |-> q.call = "ok",
     attempts |-> q.attempts,
     raw |-> q.raw, echo |-> q.echo, solo |-> q.solo, before |-> q.before,
     devBefore |-> q.devBefore, pre |-> state, cache |-> cache,
     preInfo |-> info, info |-> inf, hadInfo |-> infoOk,
     prev |-> [kind |-> last.kind, fan |-> last.fan, pwm |-> last.pwm,
               code |-> last.code, solo |-> last.solo, before |-> last.before,
               devBefore |-> last.devBefore]]

\* The handlers in flight once a new request has arrived beside them.
Joined == { [q EXCEPT !.solo = FALSE] : q \in reqs }

CanReceive == nOps < MaxOps /\ Cardinality(reqs) < MaxInFlight

\* ------------------------------------------------------------ the page
\* JavaScript values of the script: strings are sequences of characters.
\* q is an object: a function whose domain is the keys it holds.
EmptyQueue == [k \in {} |-> <<>>]

\* Boolean(v) of a string: only the empty string is falsy.
JsTruthy(v) == v # <<>>

RECURSIVE JsDigits(_, _)
JsDigits(s, acc) ==
    IF s = <<>> THEN acc
    ELSE IF IsDigit(Head(s)) THEN JsDigits(Tail(s), acc * 10 + DigitVal(Head(s)))
    ELSE -1

\* +v of a string of decimal digits: its number (the empty string gives 0);
\* -1 stands for NaN.
JsNumber(s) == IF s = <<>> THEN 0 ELSE JsDigits(s, 0)

RECURSIVE JsDigitsOf(_)
JsDigitsOf(n) ==
    IF n < 10 THEN <<DigitChars[n + 1]>>
    ELSE Append(JsDigitsOf(n \div 10), DigitChars[(n % 10) + 1])

\* String(n) of an integer, as textContent=n and an object key store it.
JsString(n) == IF n < 0 THEN <<"-">> \o JsDigitsOf(-n) ELSE JsDigitsOf(n)

\* r.value=n on <input type=range min=0 max=255>: the value is brought into
\* the range before it is stored.
RangeValue(n) == JsString(IF n < 0 THEN 0 ELSE IF n > RANGE_MAX THEN RANGE_MAX ELSE n)

\* q[i]=v
QueuePut(qu, i, v) == [k \in DOMAIN qu \cup {i} |-> IF k = i THEN v ELSE qu[k]]

\* if(q[i])return; ... if(document.activeElement===r)return;
Skipped(qu, foc, i) == (i \in DOMAIN qu /\ JsTruthy(qu[i])) \/ i \in foc

\* clearTimeout(timer);timer=setTimeout(send,deb) keeping a timer that runs.
TimerAfterInput_keep(t) == IF t.armed THEN t ELSE [armed |-> TRUE, left |-> deb]

\* clearTimeout(timer);timer=setTimeout(send,deb)
TimerAfterInput(t) == [armed |-> TRUE, left |-> deb]

NoTimer == [armed |-> FALSE, left |-> 0]
Idle == [phase |-> "idle", st |-> [i \in Fans |-> 0]]

\* What the user does: values a slider can report, sliders that take focus,
\* and how far time moves in one step.
ChgInputs ==
    { [i |-> 0, v |-> <<"0">>], [i |-> 0, v |-> <<"1", "2", "8">>],
      [i |-> 7, v |-> <<"2", "5", "5">>] }
FocusInputs == {0}
TickInputs == {30, 60}

\* What GET /status answers the page with: the cache, which a refresh from
\* the device can have filled with values outside 0..255.
PollInputs ==
    { [i \in Fans |-> IF 2 * i < FAN_COUNT THEN 0 ELSE 128],
      [i \in Fans |-> IF i = 3 THEN 300 ELSE IF i = 4 THEN -5 ELSE 64] }

\* What GET /info answers the page with.
InfoInputs == { [SysInfo EXCEPT !.upt = JInt(7), !.boost = JInt(BOOST_MAX)] }

\* The page after build(): sliders at the middle of their range, labels
\* '---', info labels as written in the markup, the boost field empty.
InitUI ==
    /\ queue = EmptyQueue
    /\ timer = NoTimer
    /\ slider = [i \in Fans |-> RangeValue((RANGE_MAX + 1) \div 2)]
    /\ shown = [i \in Fans |-> <<"-", "-", "-">>]
    /\ panel = [SysInfo EXCEPT !.boost = JNull]
    /\ focus = {}
    /\ poll = Idle
    /\ fetches = {}
    /\ sending = {}
    /\ midReject = FALSE
    /\ nIn = 0
    /\ nPoll = 0
    /\ nSend = 0
    /\ latest = EmptyQueue
    /\ carried = EmptyQueue
    /\ sinceInput = deb
    /\ midFlight = FALSE
    /\ nApply = 0

Init ==
    /\ state = [i \in Fans |-> PWM_DEFAULT]
    /\ info = SysInfo
    /\ dev \in DevBoot
    /\ devBoost = BOOST_DEFAULT
    /\ reqs = {}
    /\ nOps = 0
    /\ last = NoResp
    /\ issuedNo = [i \in Fans |-> 0]
    /\ issuedVal = [i \in Fans |-> 0]
    /\ stale = [i \in Fans |-> FALSE]
    /\ bw = [i \in Fans |-> 0]
    /\ infoOk = FALSE
    /\ allOk = TRUE
    /\ InitUI

\* ------------------------------------------------------------ the device
\* The device's side of a call (lines 51 and 59): what the call does to the
\* device, and what the device answers.
DevAfter(q, d) ==
    CASE q.kind = "set" -> { [d EXCEPT ![q.fan] = q.pwm] }
      [] q.kind = "bulk" -> { [i \in Fans |-> q.arr[i + 1]] }
      [] q.kind = "reboot" -> DevBoot
      [] OTHER -> { d }

BoostAfter(q, b) == IF q.kind = "boost" THEN q.sec ELSE b

Replies(q, d, b) ==
    CASE q.kind = "status" -> StatusReplies(d)
      [] q.kind = "info" -> UNION { InfoReplies(b, u) : u \in UptInputs }
      [] OTHER -> { RText }

\* await cli.get / cli.post returns and raise_for_status passes: the device
\* has acted on the call and its answer is handed to the handler.
esp_reply(q) ==
    /\ q \in reqs /\ q.call = "sent"
    /\ \E d2 \in DevAfter(q, dev), raw \in Replies(q, dev, devBoost) :
          /\ dev' = d2
          /\ reqs' = (reqs \ {q}) \cup
                      { [q EXCEPT !.call = "ok", !.raw = raw, !.attempts = @ + 1,
                                  !.echo = (q.kind = "status" /\ raw = Echo(dev))] }
          /\ allOk' = (allOk /\ q.kind # "reboot" /\ (q.kind = "status" => raw = Echo(dev)))
    /\ devBoost' = BoostAfter(q, devBoost)
    /\ UNCHANGED <<state, info, nOps, last, ghosts, ui>>

\* The call raises instead: the device is unreachable or answers non-2xx
\* (acted = FALSE), or it acted and the answer timed out or was unreadable.
esp_raise(q) ==
    /\ q \in reqs /\ q.call = "sent"
    /\ \E acted \in (IF q.kind \in {"set", "bulk", "boost", "reboot"} THEN BOOLEAN ELSE {FALSE}) :
          /\ dev' \in (IF acted THEN DevAfter(q, dev) ELSE {dev})
          /\ devBoost' = (IF acted THEN BoostAfter(q, devBoost) ELSE devBoost)
    /\ reqs' = (reqs \ {q}) \cup { [q EXCEPT !.call = "fail", !.attempts = @ + 1] }
    /\ allOk' = FALSE
    /\ UNCHANGED <<state, info, nOps, last, ghosts, ui>>

\* ------------------------------------------------------------ POST /set
\* set_pwm up to its await: the body is validated, the cache entry is
\* written, the device call is issued.
set_pwm_call(fan, pwm) ==
    /\ UNCHANGED <<allOk, ui>>
    /\ CanReceive
    /\ nOps' = nOps + 1
    /\ IF ~SetReq(fan, pwm)
       THEN /\ UNCHANGED <<state, info, dev, devBoost, reqs, ghosts>>
            /\ last' = Resp(Req("set", fan, pwm, NoArr, 0), HTTP_UNPROCESSABLE,
                            reqs' # reqs, state', info')
       ELSE /\ state' = [state EXCEPT ![fan] = pwm]
            /\ reqs' = Joined \cup { Req("set", fan, pwm, NoArr, 0) }
            /\ issuedNo' = [issuedNo EXCEPT ![fan] = nOps + 1]
            /\ issuedVal' = [issuedVal EXCEPT ![fan] = pwm]
            /\ stale' = [stale EXCEPT ![fan] = FALSE]
            /\ UNCHANGED <<info, dev, devBoost, last, bw, infoOk>>

\* set_pwm undoing its cache write when the forward fails.
set_pwm_return_rollback(q) ==
    /\ UNCHANGED <<allOk, ui>>
    /\ q \in reqs /\ q.kind = "set" /\ q.call # "sent"
    /\ reqs' = reqs \ {q}
    /\ UNCHANGED <<info, dev, devBoost, nOps, ghosts>>
    /\ state' = (IF q.call = "ok" THEN state ELSE [state EXCEPT ![q.fan] = q.before[q.fan]])
    /\ last' = Resp(q, IF q.call = "ok" THEN HTTP_NO_CONTENT ELSE HTTP_SERVER_ERROR,
                    TRUE, state', info')

\* set_pwm forwarding once more when the forward failed.
set_pwm_return_retry(q) ==
    /\ UNCHANGED <<allOk, ui>>
    /\ q \in reqs /\ q.kind = "set" /\ q.call # "sent"
    /\ UNCHANGED <<state, info, dev, devBoost, nOps, ghosts>>
    /\ IF q.call = "fail" /\ q.attempts < 2
       THEN /\ reqs' = (reqs \ {q}) \cup { [q EXCEPT !.call = "sent"] }
            /\ UNCHANGED last
       ELSE /\ reqs' = reqs \ {q}
            /\ last' = Resp(q, IF q.call = "ok" THEN HTTP_NO_CONTENT ELSE HTTP_SERVER_ERROR,
                            TRUE, state', info')

\* set_pwm writing its cache entry after the await instead of before it.
set_pwm_return_lateWrite(q) ==
    /\ UNCHANGED <<allOk, ui>>
    /\ q \in reqs /\ q.kind = "set" /\ q.call # "sent"
    /\ reqs' = reqs \ {q}
    /\ UNCHANGED <<info, dev, devBoost, nOps, ghosts>>
    /\ state' = [state EXCEPT ![q.fan] = q.pwm]
    /\ last' = Resp(q, IF q.call = "ok" THEN HTTP_NO_CONTENT ELSE HTTP_SERVER_ERROR,
                    TRUE, state', info')

\* set_pwm after its await: 204, or the exception of esp_get goes up.
set_pwm_return(q) ==
    /\ UNCHANGED <<allOk, ui>>
    /\ q \in reqs /\ q.kind = "set" /\ q.call # "sent"
    /\ reqs' = reqs \ {q}
    /\ UNCHANGED <<state, info, dev, devBoost, nOps, ghosts>>
    /\ last' = Resp(q, IF q.call = "ok" THEN HTTP_NO_CONTENT ELSE HTTP_SERVER_ERROR,
                    TRUE, state', info')

\* ------------------------------------------------------------ POST /bulk
\* bulk writing the cache before it forwards, as set_pwm does.
bulk_call_optimistic(pwms) ==
    /\ UNCHANGED <<allOk, ui>>
    /\ CanReceive
    /\ nOps' = nOps + 1
    /\ UNCHANGED <<info, dev, devBoost, ghosts>>
    /\ IF BulkRejected(pwms)
       THEN /\ UNCHANGED <<state, reqs>>
            /\ last' = Resp(Req("bulk", 0, 0, pwms, 0), HTTP_BAD_REQUEST,
                            reqs' # reqs, state', info')
       ELSE /\ state' = [i \in Fans |-> pwms[i + 1]]
            /\ reqs' = Joined \cup { Req("bulk", 0, 0, pwms, 0) }
            /\ UNCHANGED last

\* bulk up to its await: the test of line 80, then the device call.
bulk_call(pwms) ==
    /\ UNCHANGED <<allOk, ui>>
    /\ CanReceive
    /\ nOps' = nOps + 1
    /\ UNCHANGED <<state, info, dev, devBoost, ghosts>>
    /\ IF BulkRejected(pwms)
       THEN /\ UNCHANGED reqs
            /\ last' = Resp(Req("bulk", 0, 0, pwms, 0), HTTP_BAD_REQUEST,
                            reqs' # reqs, state', info')
       ELSE /\ reqs' = Joined \cup { Req("bulk", 0, 0, pwms, 0) }
            /\ UNCHANGED last

\* The loop of line 83 giving up half way.
BulkWrite_half(cache, pwms) ==
    [i \in Fans |-> IF 2 * i < FAN_COUNT THEN pwms[i + 1] ELSE cache[i]]

\* The loop of line 83 indexing from the wrong end.
BulkWrite_reversed(cache, pwms) == [i \in Fans |-> pwms[FAN_COUNT - i]]

\* The loop of line 83.
BulkWrite(cache, pwms) == [i \in Fans |-> pwms[i + 1]]

\* bulk after its await: the cache is written when the forward succeeded.
bulk_return(q) ==
    /\ UNCHANGED <<allOk, ui>>
    /\ q \in reqs /\ q.kind = "bulk" /\ q.call # "sent"
    /\ reqs' = reqs \ {q}
    /\ UNCHANGED <<info, dev, devBoost, nOps>>
    /\ IF q.call = "ok"
       THEN /\ state' = BulkWrite(state, q.arr)
            /\ last' = Resp(q, HTTP_NO_CONTENT, TRUE, state', info')
            /\ issuedNo' = [i \in Fans |-> IF q.id > issuedNo[i] THEN q.id ELSE issuedNo[i]]
            /\ issuedVal' = [i \in Fans |-> IF q.id > issuedNo[i] THEN q.arr[i + 1] ELSE issuedVal[i]]
            /\ stale' = [i \in Fans |-> IF q.id > issuedNo[i] THEN FALSE
                                        ELSE TRUE]
            /\ bw' = [i \in Fans |-> IF state'[i] = q.arr[i + 1] THEN bw[i] + 1 ELSE bw[i]]
            /\ UNCHANGED infoOk
       ELSE /\ UNCHANGED <<state, ghosts>>
            /\ last' = Resp(q, HTTP_SERVER_ERROR, TRUE, state', info')

\* ------------------------------------------------------------ GET /status
get_status_call ==
    /\ UNCHANGED <<allOk, ui>>
    /\ CanReceive
    /\ nOps' = nOps + 1
    /\ reqs' = Joined \cup { Req("status", 0, 0, NoArr, 0) }
    /\ UNCHANGED <<state, info, dev, devBoost, last, ghosts>>

\* How many entries the loop of line 90 writes before it ends or int(v)
\* raises: none unless raw is a list of FAN_COUNT items (line 89).
Written(raw) ==
    IF raw.t = "list" /\ Len(raw.l) = FAN_COUNT
    THEN LET bad == { k \in 1..FAN_COUNT : ~PyInt(raw.l[k]).ok }
         IN  IF bad = {} THEN FAN_COUNT
             ELSE (CHOOSE k \in bad : \A k2 \in bad : k <= k2) - 1
    ELSE 0

\* Lines 89-90 with the index off by one.
Refresh_shifted(cache, raw) ==
    [i \in Fans |-> IF i < Written(raw) THEN PyInt(raw.l[((i + 1) % FAN_COUNT) + 1]).v
                     ELSE cache[i]]

\* Lines 89-90: state[i].pwm = int(v), entry by entry, with no validation
\* on assignment.
Refresh(cache, raw) ==
    [i \in Fans |-> IF i < Written(raw) THEN PyInt(raw.l[i + 1]).v ELSE cache[i]]

\* return state under response_model=List[FanState]: a cache that holds
\* only valid FanStates is sent as it is; whether one that does not is sent
\* or refused depends on whether the installed framework validates model
\* instances again.
StatusCodes(cache) ==
    IF \A i \in Fans : FanState(cache[i]) THEN {HTTP_OK} ELSE {HTTP_OK, HTTP_SERVER_ERROR}

\* get_status after its await: refresh on success, swallow any exception,
\* return the cache.
get_status_return(q) ==
    /\ UNCHANGED <<allOk, ui>>
    /\ q \in reqs /\ q.kind = "status" /\ q.call # "sent"
    /\ reqs' = reqs \ {q}
    /\ UNCHANGED <<info, dev, devBoost, nOps, issuedNo, issuedVal, bw, infoOk>>
    /\ state' = (IF q.call = "ok" THEN Refresh(state, q.raw) ELSE state)
    /\ stale' = [i \in Fans |-> stale[i] \/ (q.call = "ok" /\ i < Written(q.raw))]
    /\ \E code \in StatusCodes(state') : last' = Resp(q, code, TRUE, state', info')

\* ------------------------------------------------------------ GET /info
get_info_call ==
    /\ UNCHANGED <<allOk, ui>>
    /\ CanReceive
    /\ nOps' = nOps + 1
    /\ reqs' = Joined \cup { Req("info", 0, 0, NoArr, 0) }
    /\ UNCHANGED <<state, info, dev, devBoost, last, ghosts>>

\* raw.get(key, default)
Get(raw, key, default) == IF key \in raw.has THEN raw.d[key] ELSE default

\* Lines 98-101 falling back to the defaults when line 98 raises.
InfoRefresh_reset(inf, raw) ==
    IF raw.t = "dict"
    THEN [fw |-> Get(raw, "fw", JStr(<<"-">>)), ip |-> Get(raw, "ip", JStr(<<"-">>)),
          upt |-> Get(raw, "upt", JInt(UPT_DEFAULT)),
          boost |-> Get(raw, "boost", JInt(BOOST_DEFAULT))]
    ELSE SysInfo

\* Lines 98-101; a raw that is no dict has no get, and line 98 raises.
InfoRefresh(inf, raw) ==
    IF raw.t = "dict"
    THEN [fw |-> Get(raw, "fw", JStr(<<"-">>)), ip |-> Get(raw, "ip", JStr(<<"-">>)),
          upt |-> Get(raw, "upt", JInt(UPT_DEFAULT)),
          boost |-> Get(raw, "boost", JInt(BOOST_DEFAULT))]
    ELSE inf

get_info_return(q) ==
    /\ UNCHANGED <<allOk, ui>>
    /\ q \in reqs /\ q.kind = "info" /\ q.call # "sent"
    /\ reqs' = reqs \ {q}
    /\ UNCHANGED <<state, dev, devBoost, nOps, issuedNo, issuedVal, stale, bw>>
    /\ info' = (IF q.call = "ok" THEN InfoRefresh(info, q.raw) ELSE info)
    /\ infoOk' = (infoOk \/ (q.call = "ok" /\ q.raw.t = "dict"))
    /\ last' = Resp(q, HTTP_OK, TRUE, state', info')

\* ------------------------------------------------------------ POST /boost
set_boost_call(seconds) ==
    /\ UNCHANGED <<allOk, ui>>
    /\ CanReceive
    /\ nOps' = nOps + 1
    /\ UNCHANGED <<state, info, dev, devBoost, ghosts>>
    /\ IF ~BoostReq(seconds)
       THEN /\ UNCHANGED reqs
            /\ last' = Resp(Req("boost", 0, 0, NoArr, seconds), HTTP_UNPROCESSABLE,
                            reqs' # reqs, state', info')
       ELSE /\ reqs' = Joined \cup { Req("boost", 0, 0, NoArr, seconds) }
            /\ UNCHANGED last

\* set_boost copying an accepted duration into the snapshot.
set_boost_return_cached(q) ==
    /\ UNCHANGED <<allOk, ui>>
    /\ q \in reqs /\ q.kind = "boost" /\ q.call # "sent"
    /\ reqs' = reqs \ {q}
    /\ UNCHANGED <<state, dev, devBoost, nOps, ghosts>>
    /\ info' = (IF q.call = "ok" THEN [info EXCEPT !.boost = JInt(q.sec)] ELSE info)
    /\ last' = Resp(q, IF q.call = "ok" THEN HTTP_NO_CONTENT ELSE HTTP_SERVER_ERROR,
                    TRUE, state', info')

\* set_boost after its await: nothing is cached.
set_boost_return(q) ==
    /\ UNCHANGED <<allOk, ui>>
    /\ q \in reqs /\ q.kind = "boost" /\ q.call # "sent"
    /\ reqs' = reqs \ {q}
    /\ UNCHANGED <<state, info, dev, devBoost, nOps, ghosts>>
    /\ last' = Resp(q, IF q.call = "ok" THEN HTTP_NO_CONTENT ELSE HTTP_SERVER_ERROR,
                    TRUE, state', info')

\* ------------------------------------------------------------ POST /reboot
reboot_call ==
    /\ UNCHANGED <<allOk, ui>>
    /\ CanReceive
    /\ nOps' = nOps + 1
    /\ reqs' = Joined \cup { Req("reboot", 0, 0, NoArr, 0) }
    /\ UNCHANGED <<state, info, dev, devBoost, last, ghosts>>

reboot_return(q) ==
    /\ UNCHANGED <<allOk, ui>>
    /\ q \in reqs /\ q.kind = "reboot" /\ q.call # "sent"
    /\ reqs' = reqs \ {q}
    /\ UNCHANGED <<state, info, dev, devBoost, nOps, ghosts>>
    /\ last' = Resp(q, IF q.call = "ok" THEN HTTP_NO_CONTENT ELSE HTTP_SERVER_ERROR,
                    TRUE, state', info')

\* ------------------------------------------------------------ the system
Next ==
    \/ \E req \in SetInputs : set_pwm_call(req.fan, req.pwm)
    \/ \E pwms \in BulkInputs : bulk_call(pwms)
    \/ get_status_call
    \/ get_info_call
    \/ \E seconds \in SecInputs : set_boost_call(seconds)
    \/ reboot_call
    \/ \E q \in reqs : esp_reply(q)
    \/ \E q \in reqs : esp_raise(q)
    \/ \E q \in reqs : set_pwm_return(q)
    \/ \E q \in reqs : bulk_return(q)
    \/ \E q \in reqs : get_status_return(q)
    \/ \E q \in reqs : get_info_return(q)
    \/ \E q \in reqs : set_boost_return(q)
    \/ \E q \in reqs : reboot_return(q)

Spec == Init /\ [][Next]_vars

\* ------------------------------------------------------------ the page's script
\* oninput=chg(i,this.value): the browser has moved slider i to v; the label
\* shows v, v is queued under i, the timer is restarted.
chg(i, v) ==
    /\ nIn < MaxInputs
    /\ nIn' = nIn + 1
    /\ slider' = [slider EXCEPT ![i] = v]
    /\ shown' = [shown EXCEPT ![i] = v]
    /\ queue' = QueuePut(queue, i, v)
    /\ timer' = TimerAfterInput(timer)
    /\ latest' = QueuePut(latest, i, v)
    /\ sinceInput' = 0
    /\ midFlight' = (midFlight \/ fetches # {})
    /\ UNCHANGED <<srv, panel, focus, poll, fetches, sending, midReject, nPoll, nSend, carried,
                   nApply>>

\* Time passes while the timer runs.
tick(d) ==
    /\ timer.armed /\ timer.left > 0
    /\ LET step == IF d < timer.left THEN d ELSE timer.left
       IN  /\ timer' = [timer EXCEPT !.left = @ - step]
           /\ sinceInput' = (IF sinceInput + step < deb THEN sinceInput + step ELSE deb)
    /\ UNCHANGED <<srv, queue, slider, shown, panel, focus, poll, fetches, sending, midReject,
                   nIn, nPoll, nSend, latest, carried, midFlight, nApply>>

\* The /set fetches send() issues for the entries of qu, as call number no.
Issued(qu, no) ==
    { [no |-> no, fan |-> JsNumber(JsString(k)), pwm |-> JsNumber(qu[k])] : k \in DOMAIN qu }

\* send() up to its await: the timer has fired; the entries are taken, q is
\* emptied, one fetch per entry is issued.
send_call ==
    /\ timer.armed /\ timer.left = 0
    /\ timer' = NoTimer
    /\ nSend' = nSend + 1
    /\ queue' = EmptyQueue
    /\ fetches' = fetches \cup Issued(queue, nSend')
    /\ sending' = sending \cup {nSend'}
    /\ carried' = [k \in DOMAIN carried \cup { f.fan : f \in Issued(queue, nSend') } |->
                      IF \E f \in Issued(queue, nSend') : f.fan = k
                      THEN (CHOOSE f \in Issued(queue, nSend') : f.fan = k).pwm
                      ELSE carried[k]]
    /\ UNCHANGED <<srv, slider, shown, panel, focus, poll, midReject, nIn, nPoll, latest,
                   sinceInput, midFlight, nApply>>

\* A /set fetch settles: fulfilled with whatever status the relay answered,
\* or midReject.  Neither outcome is looked at.
fetch_settle(f, ok) ==
    /\ f \in fetches
    /\ fetches' = fetches \ {f}
    /\ midReject' = (midReject \/ (~ok /\ \E g \in fetches \ {f} : g.no = f.no))
    /\ UNCHANGED <<srv, queue, timer, slider, shown, panel, focus, poll, sending,
                   nIn, nPoll, nSend, latest, carried, sinceInput, midFlight, nApply>>

\* send() emptying q when its fetches have settled.
send_return_clear(no) ==
    /\ no \in sending
    /\ \A f \in fetches : f.no # no
    /\ sending' = sending \ {no}
    /\ queue' = EmptyQueue
    /\ UNCHANGED <<srv, timer, slider, shown, panel, focus, poll, fetches, midReject,
                   nIn, nPoll, nSend, latest, carried, sinceInput, midFlight, nApply>>

\* send() after its await: all its fetches have settled, it returns.
send_return(no) ==
    /\ no \in sending
    /\ \A f \in fetches : f.no # no
    /\ sending' = sending \ {no}
    /\ UNCHANGED <<srv, queue, timer, slider, shown, panel, focus, poll, fetches, midReject,
                   nIn, nPoll, nSend, latest, carried, sinceInput, midFlight, nApply>>

\* refresh() up to its first await: fetch('/status') is issued.
refresh_call ==
    /\ nPoll < MaxPolls
    /\ poll.phase = "idle"
    /\ nPoll' = nPoll + 1
    /\ poll' = [Idle EXCEPT !.phase = "status"]
    /\ UNCHANGED <<srv, queue, timer, slider, shown, panel, focus, fetches, sending, midReject,
                   nIn, nSend, latest, carried, sinceInput, midFlight, nApply>>

\* refresh() between its awaits: st is held, fetch('/info') is issued.
refresh_status(st) ==
    /\ poll.phase = "status"
    /\ poll' = [phase |-> "info", st |-> st]
    /\ UNCHANGED <<srv, queue, timer, slider, shown, panel, focus, fetches, sending, midReject,
                   nIn, nPoll, nSend, latest, carried, sinceInput, midFlight, nApply>>

\* Either fetch rejects, or its body is no JSON: refresh() ends there.
refresh_raise ==
    /\ poll.phase \in {"status", "info"}
    /\ poll' = Idle
    /\ UNCHANGED <<srv, queue, timer, slider, shown, panel, focus, fetches, sending, midReject,
                   nIn, nPoll, nSend, latest, carried, sinceInput, midFlight, nApply>>

\* refresh() after its second await: the info labels and the boost field
\* are set, then each fan that is neither queued nor focused gets st[i].pwm.
refresh_return(inf) ==
    /\ poll.phase = "info"
    /\ poll' = Idle
    /\ panel' = inf
    /\ nApply' = nApply + 1
    /\ slider' = [i \in Fans |-> IF Skipped(queue, focus, i) THEN slider[i]
                                 ELSE RangeValue(poll.st[i])]
    /\ shown' = [i \in Fans |-> IF Skipped(queue, focus, i) THEN shown[i]
                                ELSE JsString(poll.st[i])]
    /\ UNCHANGED <<srv, queue, timer, focus, fetches, sending, midReject,
                   nIn, nPoll, nSend, latest, carried, sinceInput, midFlight>>

\* The user puts the focus on slider i, or takes it off the sliders.
focusin(i) ==
    /\ focus # {i}
    /\ focus' = {i}
    /\ UNCHANGED <<srv, queue, timer, slider, shown, panel, poll, fetches, sending, midReject,
                   nIn, nPoll, nSend, latest, carried, sinceInput, midFlight, nApply>>

blur ==
    /\ focus # {}
    /\ focus' = {}
    /\ UNCHANGED <<srv, queue, timer, slider, shown, panel, poll, fetches, sending, midReject,
                   nIn, nPoll, nSend, latest, carried, sinceInput, midFlight, nApply>>

NextUI ==
    \/ \E e \in ChgInputs : chg(e.i, e.v)
    \/ \E d \in TickInputs : tick(d)
    \/ send_call
    \/ \E f \in fetches, ok \in BOOLEAN : fetch_settle(f, ok)
    \/ \E no \in sending : send_return(no)
    \/ refresh_call
    \/ \E st \in PollInputs : refresh_status(st)
    \/ refresh_raise
    \/ \E inf \in InfoInputs : refresh_return(inf)
    \/ \E i \in FocusInputs : focusin(i)
    \/ blur

SpecUI == Init /\ [][NextUI]_vars

\* The browser runs a timer's callback once its delay has passed.
SpecUIFair == SpecUI /\ WF_vars(\E d \in TickInputs : tick(d)) /\ WF_vars(send_call)

\* ------------------------------------------------------------ claims
\* The case of C1: a /status answered from the device's own array, received
\* after a /set had been answered 204, with no other request beside either.
C1_Case ==
    /\ last.kind = "status" /\ last.echo /\ last.solo
    /\ last.prev.kind = "set" /\ last.prev.code = HTTP_NO_CONTENT /\ last.prev.solo

\* C1 as stated: after a successful /set {fan: f, pwm: p}, a /status served
\* with the device reporting what it holds answers p at index f and, at every
\* other index, the value the cache held before the /set.
C1_SetThenStatus_AsStated ==
    C1_Case =>
        /\ last.code = HTTP_OK
        /\ last.cache[last.prev.fan] = last.prev.pwm
        /\ \A i \in Fans \ {last.prev.fan} : last.cache[i] = last.prev.before[i]

\* C1 as amended: the /status answers p at index f and, at every other index,
\* the value the device reports for it; that is the value the cache held
\* before the /set wherever cache and device agreed before the /set.
C1_SetThenStatus ==
    C1_Case =>
        /\ last.code = HTTP_OK
        /\ last.cache[last.prev.fan] = last.prev.pwm
        /\ \A i \in Fans \ {last.prev.fan} :
              /\ last.raw.l[i + 1] = JInt(last.cache[i])
              /\ last.cache[i] = last.prev.devBefore[i]
              /\ (last.prev.before[i] = last.prev.devBefore[i]
                    => last.cache[i] = last.prev.before[i])

C1_Witness ==
    /\ C1_Case
    /\ last.cache[last.prev.fan] = last.prev.pwm
    /\ last.prev.before[last.prev.fan] # last.prev.pwm
    /\ \E i \in Fans \ {last.prev.fan} : last.cache[i] = last.prev.before[i]

\* C2 as stated: whenever no request is in flight, each cache entry equals
\* the pwm carried for that fan by the write command issued last (a /set, or
\* a /bulk whose forward succeeded).
C2_LastIssued_AsStated ==
    reqs = {} => \A i \in Fans : issuedNo[i] > 0 => state[i] = issuedVal[i]

\* C2 as amended: whenever no request is in flight, each cache entry equals
\* the pwm of the write command issued last for that fan, unless the entry
\* has since been overwritten by a /status refresh or by a /bulk that was
\* issued before that command and completed after it.
C2_LastIssued ==
    reqs = {} =>
        \A i \in Fans : (issuedNo[i] > 0 /\ ~stale[i]) => state[i] = issuedVal[i]

C2_Witness ==
    /\ reqs = {}
    /\ \E i, j \in Fans :
          /\ 0 < issuedNo[i] /\ issuedNo[i] < issuedNo[j]
          /\ ~stale[i] /\ ~stale[j]
          /\ state[i] = issuedVal[i] /\ state[j] = issuedVal[j]
          /\ state[i] # PWM_DEFAULT

\* C3: a /bulk reaches the cache in one piece: in no state, hence at no point
\* where another request can read or return the cache, have some entries
\* taken a /bulk's values and others not.
C3_BulkAtomic == \A i, j \in Fans : bw[i] = bw[j]

\* A /status that overlapped a /bulk and returned that /bulk's whole array.
C3_Witness ==
    /\ last.kind = "status" /\ ~last.solo
    /\ \A i \in Fans : bw[i] = 1
    /\ last.cache = [i \in Fans |-> (i + 1) * 10]
    /\ last.before # last.cache

\* C4: a /bulk whose array is not 8 long or holds a value outside 0..255 is
\* answered 400, makes no device call and leaves the cache as it was.
C4_BulkRejected ==
    (/\ last.kind = "bulk"
     /\ \/ Len(last.arr) # 8
        \/ \E k \in 1..Len(last.arr) : last.arr[k] < 0 \/ last.arr[k] > 255)
    => /\ last.code = HTTP_BAD_REQUEST
       /\ ~last.called
       /\ last.cache = last.before
       /\ last.cache = last.pre

C4_Witness ==
    /\ last.kind = "bulk" /\ last.code = HTTP_BAD_REQUEST
    /\ Len(last.arr) = 8
    /\ last.cache # [i \in Fans |-> PWM_DEFAULT]

\* C5 as stated: when the device call of /status fails, or the reply cannot
\* be processed, the handler answers 200 with the cache as it found it and
\* changes no entry.
C5_StatusFallback_AsStated ==
    (/\ last.kind = "status"
     /\ \/ ~last.devok
        \/ /\ last.raw.t = "list" /\ Len(last.raw.l) = 8
           /\ \E k \in 1..8 : ~PyInt(last.raw.l[k]).ok)
    => /\ last.code = HTTP_OK
       /\ last.cache = last.pre

C7_ValidationRejects ==
    (\/ /\ last.kind = "set"
        /\ (last.fan < 0 \/ last.fan > 7 \/ last.pwm < 0 \/ last.pwm > 255)
     \/ /\ last.kind = "boost"
        /\ (last.sec < 0 \/ last.sec > 300))
    => /\ last.code = HTTP_UNPROCESSABLE
       /\ ~last.called
       /\ last.cache = last.before
       /\ last.cache = last.pre

C7_Witness ==
    /\ last.kind = "set" /\ last.pwm = 256 /\ last.code = HTTP_UNPROCESSABLE
    /\ last.prev.kind = "boost" /\ last.prev.code = HTTP_UNPROCESSABLE

\* C8 as stated: the cache always has 8 entries, each with pwm in 0..255.
C8_CacheInRange_AsStated ==
    /\ DOMAIN state = 0..7
    /\ \A i \in DOMAIN state : state[i] >= 0 /\ state[i] <= 255

\* C9: a /set writes entry f before it forwards and nothing else; when the
\* forward fails it answers 500 and the cache keeps p at f, with every other
\* entry as it was.
C9_SetNotRolledBack ==
    /\ \A q \in reqs :
          (q.kind = "set" /\ q.solo) => state = [q.before EXCEPT ![q.fan] = q.pwm]
    /\ (last.kind = "set" /\ last.called /\ ~last.devok)
       => /\ last.code = HTTP_SERVER_ERROR
          /\ last.cache = last.pre
          /\ (last.solo => last.cache = [last.before EXCEPT ![last.fan] = last.pwm])

C9_Witness ==
    /\ last.kind = "set" /\ last.called /\ ~last.devok /\ last.solo
    /\ last.code = HTTP_SERVER_ERROR
    /\ last.cache[last.fan] = last.pwm
    /\ last.before[last.fan] # last.pwm
    /\ state = last.cache

\* C10: a /bulk leaves the cache alone until its forward has returned; when
\* the forward fails it answers 500 and no entry changes; when it succeeds it
\* answers 204 and the 8 entries are the submitted array in order.
C10_BulkAfterForward ==
    /\ \A q \in reqs : (q.kind = "bulk" /\ q.solo) => state = q.before
    /\ (last.kind = "bulk" /\ last.called)
       => IF last.devok
          THEN /\ last.code = HTTP_NO_CONTENT
               /\ \A i \in Fans : last.cache[i] = last.arr[i + 1]
          ELSE /\ last.code = HTTP_SERVER_ERROR
               /\ last.cache = last.pre
               /\ (last.solo => last.cache = last.before)

\* A /bulk whose forward failed after another /bulk had been applied.
C10_Witness ==
    /\ last.kind = "bulk" /\ last.called /\ ~last.devok /\ last.solo
    /\ last.code = HTTP_SERVER_ERROR
    /\ last.prev.kind = "bulk" /\ last.prev.code = HTTP_NO_CONTENT
    /\ last.cache # [i \in Fans |-> last.arr[i + 1]]
    /\ last.cache = last.before

\* C11 as stated: no handler is suspended between validating a value and
\* writing it to the cache: every step that changes the cache is the step in
\* which the written value was validated, which is the step that receives the
\* request (/set, /bulk: the body) or the step in which /status resumes with
\* the device's reply (lines 89-90).
C11_NoSuspension_AsStated ==
    [][state' # state =>
          \/ nOps' = nOps + 1
          \/ nOps' = nOps /\ \E q \in reqs \ reqs' : q.kind = "status" /\ q.call = "ok"]_vars

\* C11 as amended: /set and the /status refresh write in the step that
\* validates; /bulk validates, is suspended at its device call, and writes
\* when it resumes, so other handlers run between its validation and its
\* write.  The write loop itself is one step.
C11_NoSuspension ==
    [][state' # state =>
          \/ nOps' = nOps + 1 /\ \E q \in reqs' : q.id = nOps' /\ q.kind = "set"
          \/ nOps' = nOps /\ \E q \in reqs \ reqs' :
                                 q.kind \in {"status", "bulk"} /\ q.call = "ok"]_vars

\* A /bulk has written the cache after another handler changed the cache
\* between its validation and its write.
C11_Witness ==
    /\ last.kind = "bulk" /\ last.code = HTTP_NO_CONTENT /\ ~last.solo
    /\ last.pre # last.before
    /\ last.cache # last.pre

\* C12 as stated: a /status refresh is all-or-nothing: when the device call
\* succeeded with a list of exactly FAN_COUNT convertible values, every cache
\* entry holds the value of the list; in every other case (wrong length, no
\* list, an element int() refuses, the call failed) the cache is as the
\* handler found it.
C12_RefreshAllOrNothing_AsStated ==
    last.kind = "status" =>
        IF /\ last.devok /\ last.raw.t = "list" /\ Len(last.raw.l) = FAN_COUNT
           /\ \A k \in 1..FAN_COUNT : PyInt(last.raw.l[k]).ok
        THEN \A i \in Fans : last.cache[i] = PyInt(last.raw.l[i + 1]).v
        ELSE last.cache = last.pre

\* C13: the SysInfo snapshot changes only in the step in which /info resumes
\* with the device's reply: no step of /set, /bulk, /status, /boost or
\* /reboot changes it, a /boost the device accepted included; and no step of
\* /reboot (received, forwarded, answered) changes the fan cache.
C13_InfoOnlyByInfo ==
    [][/\ info' # info =>
             nOps' = nOps /\ \E q \in reqs \ reqs' : q.kind = "info" /\ q.call = "ok"
       /\ state' # state =>
             /\ ~(nOps' = nOps /\ \E q \in reqs \ reqs' : q.kind = "reboot")
             /\ ~(nOps' = nOps + 1 /\ \E q \in reqs' : q.id = nOps' /\ q.kind = "reboot")]_vars

\* A /boost the device accepted with a duration other than the cached one
\* has been answered 204, then a /reboot has been answered 204, and the
\* snapshot is still the initial one and the cache as /reboot found it.
C13_Witness ==
    /\ last.kind = "reboot" /\ last.code = HTTP_NO_CONTENT
    /\ last.prev.kind = "boost" /\ last.prev.code = HTTP_NO_CONTENT
    /\ devBoost # BOOST_DEFAULT /\ info.boost = JInt(BOOST_DEFAULT)
    /\ last.info = last.preInfo /\ last.cache = last.pre

\* C16: a request that passes validation makes exactly one device call,
\* whether the call succeeds or fails; a request that does not pass makes
\* none; the response is sent only after the call has returned or raised;
\* and 204 is answered only when the call succeeded.
C16_SingleAttempt ==
    /\ \A q \in reqs : q.attempts = (IF q.call = "sent" THEN 0 ELSE 1)
    /\ last.kind # "none" =>
          /\ last.attempts = (IF last.called THEN 1 ELSE 0)
          /\ last.called <=> last.code \notin {HTTP_BAD_REQUEST, HTTP_UNPROCESSABLE}
          /\ last.code = HTTP_NO_CONTENT =>
                last.devok /\ last.kind \in {"set", "bulk", "boost", "reboot"}
          /\ (last.kind \in {"set", "bulk", "boost", "reboot"} /\ last.called /\ ~last.devok)
                => last.code = HTTP_SERVER_ERROR

\* A /set whose one device call failed has been answered 500 after a
\* request that was answered 204.
C16_Witness ==
    /\ last.kind = "set" /\ last.code = HTTP_SERVER_ERROR /\ last.attempts = 1
    /\ last.prev.code = HTTP_NO_CONTENT

\* C17 as stated: while every device call has succeeded, the device has
\* applied each write and answered /status with its own array, then whenever
\* no request is in flight every cache entry a handler has written equals
\* the device's value for that fan.
C17_CacheIsDevice_AsStated ==
    (reqs = {} /\ allOk) =>
        \A i \in Fans : (issuedNo[i] > 0 \/ stale[i]) => state[i] = dev[i]

\* C14: every slider input stores its value in the queue under its fan and
\* restarts the one timer at 60 ms, sending nothing; a /set is issued only by
\* the timer firing, which it does only when no input has arrived for 60 ms;
\* the firing empties the queue and issues exactly one /set per queued fan,
\* carrying the value entered last for that fan, all in the one step, before
\* any of them can fail.
C14_Debounce ==
    [][/\ nIn' = nIn + 1 =>
             /\ timer' = [armed |-> TRUE, left |-> deb]
             /\ fetches' = fetches /\ nSend' = nSend
             /\ \E i \in DOMAIN queue' :
                   /\ queue'[i] = latest'[i] /\ slider'[i] = queue'[i]
                   /\ DOMAIN queue' = DOMAIN queue \cup {i}
                   /\ \A k \in DOMAIN queue \ {i} : queue'[k] = queue[k]
       /\ ~(fetches' \subseteq fetches) => nSend' = nSend + 1
       /\ nSend' = nSend + 1 =>
             /\ sinceInput >= deb
             /\ queue' = EmptyQueue
             /\ \A f \in fetches' \ fetches : f.no = nSend' /\ f.fan \in DOMAIN queue
             /\ \A i \in DOMAIN queue :
                   /\ Cardinality({ f \in fetches' \ fetches : f.fan = i }) = 1
                   /\ \A f \in fetches' \ fetches : f.fan = i => JsString(f.pwm) = latest[i]]_vars

\* Two inputs for two fans were answered by one timer fire; of its two /set
\* fetches one has been midReject and the other, carrying the value entered
\* last for its fan, is there all the same.
C14_Witness ==
    /\ nIn = 2 /\ nSend = 1 /\ queue = EmptyQueue
    /\ midReject
    /\ \E f \in fetches : JsString(f.pwm) = latest[f.fan]

\* C15 as stated: when a poll refresh writes the fans, the slider and the
\* label of every fan that is in the queue (whatever value is queued) or has
\* the focus stay as they are, and the slider and the label of every other
\* fan show the polled pwm.
C15_PollRefresh_AsStated ==
    [][nApply' = nApply + 1 =>
          \A i \in Fans :
              IF i \in DOMAIN queue \/ i \in focus
              THEN slider'[i] = slider[i] /\ shown'[i] = shown[i]
              ELSE slider'[i] = JsString(poll.st[i]) /\ shown'[i] = JsString(poll.st[i])]_vars

\* The part of C15 that holds whatever is polled: queued and focused fans
\* are left alone, and every other fan's label shows the polled pwm.
C15_PendingProtected ==
    [][nApply' = nApply + 1 =>
          \A i \in Fans :
              IF i \in DOMAIN queue \/ i \in focus
              THEN slider'[i] = slider[i] /\ shown'[i] = shown[i]
              ELSE shown'[i] = JsString(poll.st[i])]_vars

\* C18: no edit is lost: at every moment the value entered last for a fan is
\* either still queued with the timer running or carried by the /set issued
\* last for that fan; and once the inputs have stopped, every fan's last
\* value is carried by a /set for good, inputs that arrived while earlier
\* /set calls were in flight included.
C18_NoEditLost ==
    /\ [](\A i \in DOMAIN latest :
            \/ i \in DOMAIN queue /\ queue[i] = latest[i] /\ timer.armed
            \/ i \in DOMAIN carried /\ JsString(carried[i]) = latest[i])
    /\ <>[](\A i \in DOMAIN latest :
              i \in DOMAIN carried /\ JsString(carried[i]) = latest[i])

\* An input arrived while a /set of the first flush was in flight; the
\* second flush has carried it.
C18_Witness ==
    /\ midFlight /\ nSend = 2 /\ queue = EmptyQueue /\ DOMAIN latest # {}
    /\ \A i \in DOMAIN latest : i \in DOMAIN carried /\ JsString(carried[i]) = latest[i]
    /\ \E f \in fetches : f.no = 1

====
